---- MODULE Spec2Model ----
(***************************************************************************)
(* Model of the promo-backend draw service: the weighted draw engine       *)
(* (internal/rng/generator.go) and the ExecuteDraw / RerunDraw handlers    *)
(* with their draws and winners tables.                                    *)
(*                                                                         *)
(* MSISDNs are modelled by the integers 1..NumMsisdn: the integer order is *)
(* the lexicographic order sort.Slice uses on the strings.  UUIDs are      *)
(* modelled by positive integers; 0 stands for an absent JSON field and -1 *)
(* for a string that does not parse.                                       *)
(***************************************************************************)
EXTENDS Integers, Sequences, FiniteSets, TLC

\* ------------------------------------------------------------------------
\* Bounds of the model
\* ------------------------------------------------------------------------
NumMsisdn == 3
MaxPoints == 2
MaxEntries == 3
MaxPastRows == 2

MSISDNs == 1..NumMsisdn

EligibleEntry(m, p) == [MSISDN |-> m, Points |-> p]

EligibleEntries == {EligibleEntry(m, p) : m \in MSISDNs, p \in 1..MaxPoints}

\* every entry list of at most MaxEntries entries, duplicates and any order
EntryLists == UNION {[1..n -> EligibleEntries] : n \in 0..MaxEntries}

PrizeTier(id, name, quantity, runnerUps) ==
    [ID |-> id, TierName |-> name, Quantity |-> quantity, RunnerUpCount |-> runnerUps]

\* ------------------------------------------------------------------------
\* internal/rng/generator.go
\* ------------------------------------------------------------------------
RECURSIVE SumPoints(_)
SumPoints(entries) ==
    IF entries = <<>> THEN 0
    ELSE entries[1].Points + SumPoints(Tail(entries))

RECURSIVE SumWeights(_)
SumWeights(pool) ==
    IF pool = <<>> THEN 0
    ELSE pool[1].Weight + SumWeights(Tail(pool))

\* sort.Slice(weighted, MSISDN <): an insertion sort, equal keys keep their order
RECURSIVE InsertSorted(_, _)
InsertSorted(sorted, we) ==
    IF sorted = <<>> THEN <<we>>
    ELSE IF we.MSISDN < sorted[1].MSISDN THEN <<we>> \o sorted
    ELSE <<sorted[1]>> \o InsertSorted(Tail(sorted), we)

RECURSIVE SortByMSISDN(_)
SortByMSISDN(ws) ==
    IF ws = <<>> THEN <<>>
    ELSE InsertSorted(SortByMSISDN(SubSeq(ws, 1, Len(ws) - 1)), ws[Len(ws)])

\* cum := 0; for i := range pool { cum += Weight; pool[i].CumSum = cum }
RECURSIVE RecomputeCumSum(_, _)
RecomputeCumSum(pool, cum) ==
    IF pool = <<>> THEN <<>>
    ELSE LET c == cum + pool[1].Weight
         IN  <<[pool[1] EXCEPT !.CumSum = c]>> \o RecomputeCumSum(Tail(pool), c)

BuildWeightedEntries(entries) ==
    LET weighted == [i \in 1..Len(entries) |->
                        [MSISDN |-> entries[i].MSISDN,
                         Weight |-> entries[i].Points,
                         CumSum |-> 0]]
    IN  [pool        |-> RecomputeCumSum(SortByMSISDN(weighted), 0),
         totalPoints |-> SumPoints(entries)]

\* a search for the first index whose CumSum is at least r
RECURSIVE SearchAtLeast(_, _, _, _)
SearchAtLeast(weighted, r, i, j) ==
    IF i < j
    THEN LET h == (i + j) \div 2
         IN  IF ~(r <= weighted[h + 1].CumSum)
             THEN SearchAtLeast(weighted, r, h + 1, j)
             ELSE SearchAtLeast(weighted, r, i, h)
    ELSE i

\* sort.Search(n, f): binary search over the 0-based indices [i, j)
RECURSIVE SortSearch(_, _, _, _)
SortSearch(weighted, r, i, j) ==
    IF i < j
    THEN LET h == (i + j) \div 2
         IN  IF ~(r < weighted[h + 1].CumSum)
             THEN SortSearch(weighted, r, h + 1, j)
             ELSE SortSearch(weighted, r, i, h)
    ELSE i

\* u32 % uint32(totalPoints) panics (integer divide by zero) when the pool is
\* empty; the handler's gin.Default() recovery turns the panic into a 500.
\* uint32(totalPoints) is totalPoints itself for every total below 2^32, which
\* the totals of the bounded entry lists are.
pickOneMSISDN(weighted, totalPoints, u32) ==
    IF totalPoints = 0
    THEN [kind |-> "panic", msisdn |-> 0]
    ELSE LET r   == u32 % totalPoints
             idx == SortSearch(weighted, r, 0, Len(weighted))
         IN  IF idx < 0 \/ idx >= Len(weighted)
             THEN [kind |-> "err", msisdn |-> 0]
             ELSE [kind |-> "ok", msisdn |-> weighted[idx + 1].MSISDN]

\* one representative 32-bit word for every residue modulo totalPoints
Words(totalPoints) == IF totalPoints > 0 THEN 0..(totalPoints - 1) ELSE {0}

\* a removal that drops only the first entry of the MSISDN
RemoveFirstInstance(pool, msisdn) ==
    LET hits    == {i \in 1..Len(pool) : pool[i].MSISDN = msisdn}
        first   == CHOOSE i \in hits : \A j \in hits : i <= j
        newPool == IF hits = {} THEN pool
                   ELSE SubSeq(pool, 1, first - 1) \o SubSeq(pool, first + 1, Len(pool))
    IN  [pool        |-> RecomputeCumSum(newPool, 0),
         totalPoints |-> SumWeights(newPool)]

\* a removal that leaves the cumulative sums as they were
RemoveKeepingCumSum(pool, msisdn) ==
    LET newPool == SelectSeq(pool, LAMBDA we : we.MSISDN # msisdn)
    IN  [pool        |-> newPool,
         totalPoints |-> SumWeights(newPool)]

\* "Remove ALL instances of this MSISDN from weightedPool", then recompute CumSum
RemoveMSISDN(pool, msisdn) ==
    LET newPool == SelectSeq(pool, LAMBDA we : we.MSISDN # msisdn)
    IN  [pool        |-> RecomputeCumSum(newPool, 0),
         totalPoints |-> SumWeights(newPool)]

WinnerResult(tier, msisdn, position) ==
    [TierName |-> tier.TierName, MSISDN |-> msisdn, Position |-> position]

\* result[tier.TierName] = winnersForTier (a Go map: a later key overwrites)
MapPut(result, key, value) ==
    [k \in (DOMAIN result) \cup {key} |-> IF k = key THEN value ELSE result[k]]

EmptyMap == [k \in {} |-> <<>>]

\* The state of one DrawWinners call.  picks is the history of the sampling
\* steps (tier id, candidate, accepted or not, phase), kept for the properties.
NewDrawState(entries, pastWinners) ==
    LET built == BuildWeightedEntries(entries)
    IN  [status         |-> "running",
         weightedPool   |-> built.pool,
         totalPoints    |-> built.totalPoints,
         pastWinners    |-> pastWinners,
         result         |-> EmptyMap,
         ti             |-> 1,
         phase          |-> "main",
         pos            |-> 0,
         winnersForTier |-> <<>>,
         position       |-> 1,
         picks          |-> <<>>]

\* Loop control between two sampling steps: leaves a finished main loop for the
\* runner-up loop, a finished runner-up loop for the next tier, and the last
\* tier for the return.
RECURSIVE Advance(_, _)
Advance(st, tiers) ==
    IF st.status # "running" THEN st
    ELSE IF st.ti > Len(tiers) THEN [st EXCEPT !.status = "done"]
    ELSE LET tier == tiers[st.ti]
         IN  IF st.phase = "main"
             THEN IF st.pos < tier.Quantity THEN st
                  ELSE Advance([st EXCEPT !.phase = "runner", !.pos = 0], tiers)
             ELSE IF st.pos < tier.RunnerUpCount THEN st
                  ELSE Advance([st EXCEPT
                                   !.result = MapPut(st.result, tier.TierName,
                                                     st.winnersForTier),
                                   !.ti = st.ti + 1,
                                   !.phase = "main",
                                   !.pos = 0,
                                   !.winnersForTier = <<>>,
                                   !.position = 1], tiers)

Pick(tier, msisdn, accepted, runnerUp) ==
    [tier |-> tier.ID, msisdn |-> msisdn, accepted |-> accepted, runnerUp |-> runnerUp]

\* the body of an accepted iteration: mark, append, position++, remove, recompute
Accept(st, tier, msisdn) ==
    LET rest == RemoveMSISDN(st.weightedPool, msisdn)
    IN  [st EXCEPT
            !.pastWinners    = st.pastWinners \cup {msisdn},
            !.winnersForTier = Append(st.winnersForTier,
                                      WinnerResult(tier, msisdn, st.position)),
            !.position       = st.position + 1,
            !.weightedPool   = rest.pool,
            !.totalPoints    = rest.totalPoints,
            !.pos            = st.pos + 1,
            !.picks          = Append(st.picks,
                                      Pick(tier, msisdn, TRUE, st.phase = "runner"))]

\* one iteration of the main loop (lines 107-145)
MainIteration(st, tier, u32) ==
    LET pk == pickOneMSISDN(st.weightedPool, st.totalPoints, u32)
    IN  IF pk.kind = "panic" THEN [st EXCEPT !.status = "panic"]
        ELSE IF pk.kind = "err" THEN [st EXCEPT !.status = "error"]
        ELSE IF pk.msisdn \in st.pastWinners
        THEN [st EXCEPT !.pos = st.pos + 1,
                        !.picks = Append(st.picks, Pick(tier, pk.msisdn, FALSE, FALSE))]
        ELSE Accept(st, tier, pk.msisdn)

\* one iteration of the runner-up loop (lines 148-182)
RunnerUpIteration(st, tier, u32) ==
    LET pk == pickOneMSISDN(st.weightedPool, st.totalPoints, u32)
    IN  IF pk.kind = "panic" THEN [st EXCEPT !.status = "panic"]
        ELSE IF pk.kind = "err" THEN [st EXCEPT !.status = "error"]
        ELSE Accept(st, tier, pk.msisdn)

\* one sampling step of DrawWinners from a state that has an iteration pending
DrawStep(st, tiers, u32) ==
    LET tier == tiers[st.ti]
    IN  Advance(IF st.phase = "main"
                THEN MainIteration(st, tier, u32)
                ELSE RunnerUpIteration(st, tier, u32), tiers)

StartDraw(entries, tiers, pastWinners) ==
    Advance(NewDrawState(entries, pastWinners), tiers)

\* every final state of DrawWinners(entries, tiers, pastWinners), over all
\* random streams
RECURSIVE RunToEnd(_, _)
RunToEnd(st, tiers) ==
    IF st.status # "running" THEN {st}
    ELSE UNION {RunToEnd(DrawStep(st, tiers, u), tiers) : u \in Words(st.totalPoints)}

DrawWinners(entries, tiers, pastWinners) ==
    RunToEnd(StartDraw(entries, tiers, pastWinners), tiers)


\* ------------------------------------------------------------------------
\* State
\* ------------------------------------------------------------------------
VARIABLES
    draws,            \* the draws table: a set of Draw rows
    winners,          \* the winners table: a set of Winner rows
    prizeStructures,  \* the prize_structures table with its tiers, by order_index
    nextId,           \* the next value uuid.New() returns for a Draw
    h,                \* per request goroutine: position and local variables
    eng,              \* the state of one DrawWinners call (EngineSpec)
    engTiers,         \* its tiers argument
    engPast,          \* the winners rows its caller built the past-winner map from
    engPool0,         \* the weighted pool as first built from its entries
    sh,               \* the goroutine of the prize-structure routes
    nextTierId,       \* the next value uuid.New() returns for a PrizeTier
    nextStructId,     \* the next value uuid.New() returns for a PrizeStructure
    call,             \* one call of a helper function: its argument and result
    mu,               \* CSPRNG.mu: the goroutine that holds it, 0 when unlocked
    streamPos,        \* the keystream bytes c.stream has handed out so far
    rd                \* per goroutine: its call of CSPRNG.Read

vars == <<draws, winners, prizeStructures, nextId, h, eng, engTiers, engPast, engPool0,
          sh, nextTierId, nextStructId, call, mu, streamPos, rd>>

dbVars == <<draws, winners, prizeStructures>>

engVars == <<eng, engTiers, engPast, engPool0>>

structVars == <<sh, nextTierId, nextStructId>>

rngVars == <<mu, streamPos, rd>>

\* ------------------------------------------------------------------------
\* Bounds and inputs of the handlers
\* ------------------------------------------------------------------------
NumProcs == 2
NumDates == 2
MaxDrawIds == 2

MaxTierIds == 3

MaxStructIds == 2

NumGoroutines == 3

Goroutines == 1..NumGoroutines

\* a goroutine that is not in CSPRNG.Read: n is len(buf), got the keystream
\* bytes, by their offset in the stream, that the call has put into buf, calls
\* the bytes its earlier calls returned
NoRead == [pc |-> "idle", n |-> 0, got |-> <<>>, calls |-> <<>>]

Procs == 1..NumProcs

Dates == 1..NumDates

\* the one prize structure of the table: a Jackpot tier with one main winner and
\* one runner-up
JackpotStructure ==
    [ID |-> 1, Name |-> "daily", Effective |-> 1,
     Tiers |-> <<PrizeTier(1, "Jackpot", 1, 1)>>]

\* draw_date, prize_structure_id and the :id parameter as received:
\* 0 = absent, -1 = present but not parseable, n > 0 = the date or UUID n
DrawIdParams == {-1} \cup (1..MaxDrawIds)

DrawRequest(date, structure, entries) ==
    [draw_date |-> date, prize_structure_id |-> structure, msisdn_entries |-> entries]

\* msisdn_entries that pass binding: absent, two MSISDNs of which one is sent
\* twice, a pool of one
RequestEntryLists ==
    { <<>>,
      <<EligibleEntry(1, 2), EligibleEntry(2, 1), EligibleEntry(1, 2)>>,
      <<EligibleEntry(1, 1)>> }

\* bodies that fail binding: no draw_date, no prize_structure_id (the
\* ExecuteDraw body minus prize_structure_id), an entry with points = 0
UnboundBodies ==
    { DrawRequest(0, 1, <<>>),
      DrawRequest(1, 0, <<>>),
      DrawRequest(1, 0, <<EligibleEntry(1, 1), EligibleEntry(2, 1)>>),
      DrawRequest(1, 1, <<EligibleEntry(1, 0)>>) }

\* ExecuteDraw bodies: any date string, a malformed, the known and an unknown
\* structure id
ExecuteRequestBodies ==
    UnboundBodies \cup
    {DrawRequest(d, s, e) : d \in {-1} \cup Dates, s \in {-1, 1, 2}, e \in RequestEntryLists}

\* RerunDraw bodies: the draw_date and prize_structure_id of the body are bound
\* and then never read
RerunRequestBodies ==
    UnboundBodies \cup {DrawRequest(1, 1, e) : e \in RequestEntryLists}

\* phClient.FetchEligibleEntries(windowStart, windowEnd): the client returns an
\* empty slice and no error, whatever the window
FetchEligibleEntries == [err |-> FALSE, entries |-> <<>>]

\* ------------------------------------------------------------------------
\* Handlers: ExecuteDraw and RerunDraw
\* ------------------------------------------------------------------------

\* drawRequest's binding tags: draw_date and prize_structure_id are required,
\* every entry needs an msisdn and points >= 1
ShouldBindJSON(body) ==
    /\ body.draw_date # 0
    /\ body.prize_structure_id # 0
    /\ \A i \in 1..Len(body.msisdn_entries) : body.msisdn_entries[i].Points >= 1

\* time.Parse("2006-01-02", s) and uuid.Parse(s)
Parses(s) == s > 0

\* a lookup that sees only the reruns of the date
FindRerunsByDate(table, date) == {d \in table : d.DrawDate = date /\ d.IsRerun}

\* config.DB.Where("draw_date = ?", drawDate).First(&existing)
FindDrawsByDate(table, date) == {d \in table : d.DrawDate = date}

\* config.DB.First(&oldDraw, "id = ?", origDrawID)
FindDrawsById(table, id) == {d \in table : d.ID = id}

\* config.DB.Preload("Tiers", order_index asc).First(&prizeStruct, "id = ?", id)
FindStructures(table, id) == {ps \in table : ps.ID = id}

AllTiers(structures) ==
    UNION {{ps.Tiers[i] : i \in 1..Len(ps.Tiers)} : ps \in structures}

Response(status) == [status |-> status, rerun_eligible |-> FALSE, draw_id |-> 0]

Conflict(existing) == [status |-> 409, rerun_eligible |-> TRUE, draw_id |-> existing.ID]

NoDraw == [ID |-> 0, DrawDate |-> 0, PrizeStructureID |-> 0, TotalEntries |-> 0,
           Source |-> "", IsRerun |-> FALSE]

NoStructure == [ID |-> 0, Name |-> "", Effective |-> 0, Tiers |-> <<>>]

\* a goroutine that is not handling a request
Idle ==
    [pc |-> "idle", kind |-> "none", drawDate |-> 0, oldDraw |-> NoDraw,
     prizeStruct |-> NoStructure, entries |-> <<>>, queried |-> FALSE,
     used |-> <<>>, drawResults |-> EmptyMap,
     totalPoints |-> 0, drawSource |-> "", newDrawID |-> 0, newDraw |-> NoDraw,
     rows |-> <<>>, committed |-> FALSE, resp |-> Response(0)]

\* c.JSON(status, ...); return
Reply(loc, resp) == [loc EXCEPT !.pc = "done", !.resp = resp]

\* the handlers that can still take a fresh draw id
InFlight == {p \in Procs : h[p].pc \in {"loaded", "drawn"}}

IdsLeft == (nextId - 1) + Cardinality(InFlight) < MaxDrawIds

\* ExecuteDraw, on the request body, up to the loaded prize structure
ExecuteBeginWith(p, body) ==
    LET loc == [Idle EXCEPT !.kind = "execute"]
    IN  IF ~ShouldBindJSON(body)
        THEN h' = [h EXCEPT ![p] = Reply(loc, Response(400))]
        ELSE IF ~Parses(body.draw_date)
        THEN h' = [h EXCEPT ![p] = Reply(loc, Response(400))]
        ELSE LET dated == [loc EXCEPT !.drawDate = body.draw_date]
             IN  IF FindDrawsByDate(draws, body.draw_date) # {}
                 THEN \E existing \in FindDrawsByDate(draws, body.draw_date) :
                        h' = [h EXCEPT ![p] = Reply(dated, Conflict(existing))]
                 ELSE IF ~Parses(body.prize_structure_id)
                 THEN h' = [h EXCEPT ![p] = Reply(dated, Response(400))]
                 ELSE IF FindStructures(prizeStructures, body.prize_structure_id) = {}
                 THEN h' = [h EXCEPT ![p] = Reply(dated, Response(400))]
                 ELSE /\ IdsLeft
                      /\ \E ps \in FindStructures(prizeStructures,
                                                  body.prize_structure_id) :
                           h' = [h EXCEPT ![p] =
                                    [dated EXCEPT !.pc = "loaded",
                                                  !.prizeStruct = ps,
                                                  !.entries = body.msisdn_entries]]

ExecuteBegin(p) ==
    /\ h[p].pc \in {"idle", "done"}
    /\ \E body \in ExecuteRequestBodies : ExecuteBeginWith(p, body)
    /\ UNCHANGED <<dbVars, nextId, engVars, structVars, call, rngVars>>

\* RerunDraw, on the :id parameter and the request body, up to the loaded prize
\* structure
RerunBeginWith(p, id, body) ==
    LET loc == [Idle EXCEPT !.kind = "rerun"]
    IN  IF ~Parses(id)
        THEN h' = [h EXCEPT ![p] = Reply(loc, Response(400))]
        ELSE IF ~ShouldBindJSON(body)
        THEN h' = [h EXCEPT ![p] = Reply(loc, Response(400))]
        ELSE IF FindDrawsById(draws, id) = {}
        THEN h' = [h EXCEPT ![p] = Reply(loc, Response(404))]
        ELSE \E oldDraw \in FindDrawsById(draws, id) :
               LET found == [loc EXCEPT !.oldDraw = oldDraw,
                                        !.drawDate = oldDraw.DrawDate]
               IN  IF FindStructures(prizeStructures, oldDraw.PrizeStructureID) = {}
                   THEN h' = [h EXCEPT ![p] = Reply(found, Response(500))]
                   ELSE /\ IdsLeft
                        /\ \E ps \in FindStructures(prizeStructures,
                                                    oldDraw.PrizeStructureID) :
                             h' = [h EXCEPT ![p] =
                                      [found EXCEPT !.pc = "loaded",
                                                    !.prizeStruct = ps,
                                                    !.entries = body.msisdn_entries]]

RerunBegin(p) ==
    /\ h[p].pc \in {"idle", "done"}
    /\ \E id \in DrawIdParams, body \in RerunRequestBodies : RerunBeginWith(p, id, body)
    /\ UNCHANGED <<dbVars, nextId, engVars, structVars, call, rngVars>>

ExecuteDrawRow(id, loc) ==
    [ID |-> id, DrawDate |-> loc.drawDate, PrizeStructureID |-> loc.prizeStruct.ID,
     TotalEntries |-> loc.totalPoints, Source |-> loc.drawSource, IsRerun |-> FALSE]

\* a rerun row that is not flagged as one
RerunDrawRowUnflagged(id, loc) ==
    [ID |-> id, DrawDate |-> loc.drawDate, PrizeStructureID |-> loc.prizeStruct.ID,
     TotalEntries |-> loc.totalPoints, Source |-> loc.drawSource, IsRerun |-> FALSE]

RerunDrawRow(id, loc) ==
    [ID |-> id, DrawDate |-> loc.drawDate, PrizeStructureID |-> loc.prizeStruct.ID,
     TotalEntries |-> loc.totalPoints, Source |-> loc.drawSource, IsRerun |-> TRUE]

\* The flat past-winner set handed to DrawWinners(…, pastWinners map[string]bool):
\* the MSISDNs of the winners rows whose prize tier is named "Jackpot".
JackpotPastWinners(rows, tierTable) ==
    {w.MSISDN : w \in {r \in rows :
                          \E t \in tierTable : /\ t.ID = r.PrizeTierID
                                               /\ t.TierName = "Jackpot"}}

\* pastWinsByTier[w.MSISDN][w.PrizeTierID] = true for every winners row
pastWinsByTier(rows) ==
    [m \in {r.MSISDN : r \in rows} |-> {r.PrizeTierID : r \in {x \in rows : x.MSISDN = m}}]

\* a source that does not look at the request
SourceAlwaysPostHog(msisdnEntries) == "PostHog"

\* drawSource := "PostHog"; if len(req.MSISDNEntries) > 0 { drawSource = "CSV" }
DrawSourceOf(msisdnEntries) == IF Len(msisdnEntries) > 0 THEN "CSV" ELSE "PostHog"

\* the number of the entries
CountEntries(entries) == Len(entries)

\* totalPoints := 0; for _, e := range entries { totalPoints += e.Points }
RECURSIVE TotalPoints(_)
TotalPoints(entries) ==
    IF entries = <<>> THEN 0
    ELSE TotalPoints(SubSeq(entries, 1, Len(entries) - 1)) + entries[Len(entries)].Points

\* the entries, the past winners read from the winners table, and the engine;
\* queried: phClient.FetchEligibleEntries has been called; used: the entries
\* handed to rng.DrawWinners
RunDraw(p, drawStatus) ==
    LET fromCsv == Len(h[p].entries) > 0
        rows    == {w \in winners : \E d \in draws : d.ID = w.DrawID}
        past    == JackpotPastWinners(rows, AllTiers(prizeStructures))
        f       == FetchEligibleEntries
        entries == IF fromCsv THEN h[p].entries ELSE f.entries
        loc     == [h[p] EXCEPT !.queried = ~fromCsv]
    IN  IF ~fromCsv /\ f.err
        THEN h' = [h EXCEPT ![p] = Reply(loc, Response(500))]
        ELSE IF Len(entries) = 0
        THEN h' = [h EXCEPT ![p] = Reply(loc, Response(400))]
        ELSE \E fin \in DrawWinners(entries, loc.prizeStruct.Tiers, past) :
               IF fin.status # "done"
               THEN h' = [h EXCEPT ![p] =
                             Reply([loc EXCEPT !.used = entries], Response(drawStatus))]
               ELSE h' = [h EXCEPT ![p] =
                             [loc EXCEPT !.pc = "drawn",
                                         !.used = entries,
                                         !.drawResults = fin.result,
                                         !.totalPoints = TotalPoints(entries),
                                         !.drawSource = DrawSourceOf(loc.entries)]]

\* a handler that inserts its Draw row before it looks at the entries
ExecuteDrawWinnersSavingFirst(p) ==
    /\ h[p].pc = "loaded"
    /\ h[p].kind = "execute"
    /\ RunDraw(p, 500)
    /\ draws' = draws \cup {ExecuteDrawRow(nextId, h[p])}
    /\ UNCHANGED <<winners, prizeStructures, nextId, engVars, structVars, call, rngVars>>

ExecuteDrawWinners(p) ==
    /\ h[p].pc = "loaded"
    /\ h[p].kind = "execute"
    /\ RunDraw(p, 500)
    /\ UNCHANGED <<dbVars, nextId, engVars, structVars, call, rngVars>>

RerunDrawWinners(p) ==
    /\ h[p].pc = "loaded"
    /\ h[p].kind = "rerun"
    /\ RunDraw(p, 500)
    /\ UNCHANGED <<dbVars, nextId, engVars, structVars, call, rngVars>>

\* the orders in which "for tierName, tierWinners := range drawResults" may run
KeyOrders(result) ==
    LET keys == DOMAIN result
        n    == Cardinality(keys)
    IN  {o \in [1..n -> keys] : \A i, j \in 1..n : i # j => o[i] # o[j]}

\* isRunner: some tier of that name has Position > Quantity
IsRunner(tiers, tierName, position) ==
    \E i \in 1..Len(tiers) : tiers[i].TierName = tierName /\ position > tiers[i].Quantity

\* tierID: the id of the first tier of that name (uuid.Nil, 0, when there is none)
RECURSIVE TierIdByName(_, _)
TierIdByName(tiers, tierName) ==
    IF tiers = <<>> THEN 0
    ELSE IF tiers[1].TierName = tierName THEN tiers[1].ID
    ELSE TierIdByName(Tail(tiers), tierName)

WinnerRow(winnerInfo, tierName, tiers, drawId) ==
    [DrawID      |-> drawId,
     PrizeTierID |-> TierIdByName(tiers, tierName),
     MSISDN      |-> winnerInfo.MSISDN,
     Position    |-> winnerInfo.Position,
     IsRunnerUp  |-> IsRunner(tiers, tierName, winnerInfo.Position)]

RECURSIVE WinnerRows(_, _, _, _)
WinnerRows(result, order, tiers, drawId) ==
    IF order = <<>> THEN <<>>
    ELSE [i \in 1..Len(result[order[1]]) |->
             WinnerRow(result[order[1]][i], order[1], tiers, drawId)]
         \o WinnerRows(result, Tail(order), tiers, drawId)

\* a winners table that takes any prize_tier_id
AnyTierId(tierId, structures) == TRUE

\* Winner.PrizeTier, foreignKey:PrizeTierID: the insert of a winners row whose
\* prize_tier_id is the id of no prize_tiers row fails
TierExists(tierId, structures) == \E t \in AllTiers(structures) : t.ID = tierId

\* the same inserts without a transaction: every insert before the failing one
\* stays
TxWritesAutoCommit(newDraw, rows, failAt, commitOK) ==
    [draws   |-> IF failAt >= 1 THEN {newDraw} ELSE {},
     winners |-> {rows[i] : i \in {k \in 1..Len(rows) : k < failAt}}]

\* What tx := config.DB.Begin(); tx.Create(&newDraw); tx.Create(&newWinner)...;
\* tx.Commit() leaves in the tables.  failAt = 0: the insert of the Draw fails;
\* failAt = k in 1..Len(rows): the insert of the k-th Winner fails (both followed
\* by tx.Rollback()); failAt = Len(rows) + 1: no insert fails, and commitOK says
\* whether the commit goes through.
TxWrites(newDraw, rows, failAt, commitOK) ==
    IF failAt > Len(rows) /\ commitOK
    THEN [draws |-> {newDraw}, winners |-> {rows[i] : i \in 1..Len(rows)}]
    ELSE [draws |-> {}, winners |-> {}]

\* the transaction of one draw and the response that follows it
WriteDraw(p, newDraw) ==
    LET loc == h[p]
    IN  \E order \in KeyOrders(loc.drawResults) :
          LET rows == WinnerRows(loc.drawResults, order, loc.prizeStruct.Tiers, newDraw.ID)
          IN  \E failAt \in 0..(Len(rows) + 1), commitOK \in BOOLEAN :
                LET written   == TxWrites(newDraw, rows, failAt, commitOK)
                    committed == failAt > Len(rows) /\ commitOK
                    after     == [loc EXCEPT
                                     !.newDrawID   = newDraw.ID,
                                     !.committed   = committed,
                                     !.newDraw     = IF committed THEN newDraw ELSE NoDraw,
                                     !.rows        = IF committed THEN rows ELSE <<>>,
                                     !.prizeStruct = NoStructure,
                                     !.drawResults = EmptyMap,
                                     !.totalPoints = 0,
                                     !.drawSource  = ""]
                IN  /\ \A k \in 1..Len(rows) :
                          k < failAt => TierExists(rows[k].PrizeTierID, prizeStructures)
                    /\ draws' = draws \cup written.draws
                    /\ winners' = winners \cup written.winners
                    /\ h' = [h EXCEPT ![p] =
                                Reply(after, Response(IF failAt <= Len(rows)
                                                      THEN 500 ELSE 200))]

ExecuteWrite(p) ==
    /\ h[p].pc = "drawn"
    /\ h[p].kind = "execute"
    /\ WriteDraw(p, ExecuteDrawRow(nextId, h[p]))
    /\ nextId' = nextId + 1
    /\ UNCHANGED <<prizeStructures, engVars, structVars, call, rngVars>>

RerunWrite(p) ==
    /\ h[p].pc = "drawn"
    /\ h[p].kind = "rerun"
    /\ WriteDraw(p, RerunDrawRow(nextId, h[p]))
    /\ nextId' = nextId + 1
    /\ UNCHANGED <<prizeStructures, engVars, structVars, call, rngVars>>

\* ------------------------------------------------------------------------
\* Specification of the handlers
\* ------------------------------------------------------------------------
\* ------------------------------------------------------------------------
\* Handlers: UpdatePrizeStructure and DeletePrizeStructure
\* ------------------------------------------------------------------------
StructureIdParams == {-1, 1, 2}

TierRequest(name, quantity, runnerUps, orderIndex) ==
    [tier_name |-> name, quantity |-> quantity, runner_up_count |-> runnerUps,
     order_index |-> orderIndex]

\* name, effective and tiers of a prizeStructureRequest; "" and 0 are a field
\* that is absent or zero, -1 a date that does not parse
StructureRequest(name, effective, tiers) ==
    [name |-> name, effective |-> effective, tiers |-> tiers]

\* binding:"required", "required,min=1,dive", "required,gte=1", "required,gte=0"
BindsStructure(body) ==
    /\ body.name # ""
    /\ body.effective # 0
    /\ Len(body.tiers) >= 1
    /\ \A i \in 1..Len(body.tiers) :
         /\ body.tiers[i].tier_name # ""
         /\ body.tiers[i].quantity # 0 /\ body.tiers[i].quantity >= 1
         /\ body.tiers[i].runner_up_count # 0 /\ body.tiers[i].runner_up_count >= 0
         /\ body.tiers[i].order_index # 0 /\ body.tiers[i].order_index >= 1

\* a renamed structure with the same tier, two tiers sent in the reverse of
\* their order_index, no tiers, a quantity of 0, and a date that does not parse
UpdateRequestBodies ==
    { StructureRequest("weekly", 2, <<TierRequest("Jackpot", 1, 1, 1)>>),
      StructureRequest("daily", 1, <<TierRequest("Jackpot", 2, 1, 2),
                                     TierRequest("Consolation", 1, 1, 1)>>),
      StructureRequest("daily", 1, <<>>),
      StructureRequest("daily", 1, <<TierRequest("Jackpot", 0, 1, 1)>>),
      StructureRequest("daily", -1, <<TierRequest("Jackpot", 1, 1, 1)>>) }

\* the rows tx.Create(&newTier) inserts, in the order of the request, with the
\* order_index of each
CreatedTiers(reqTiers, firstId) ==
    [i \in 1..Len(reqTiers) |->
        [tier  |-> PrizeTier(firstId + i - 1, reqTiers[i].tier_name,
                             reqTiers[i].quantity, reqTiers[i].runner_up_count),
         order |-> reqTiers[i].order_index]]

RECURSIVE InsertByOrderIndex(_, _)
InsertByOrderIndex(sorted, x) ==
    IF sorted = <<>> THEN <<x>>
    ELSE IF x.order < sorted[1].order THEN <<x>> \o sorted
    ELSE <<sorted[1]>> \o InsertByOrderIndex(Tail(sorted), x)

\* Preload("Tiers", Order("order_index asc")): the tiers as every later load
\* returns them
RECURSIVE OrderedTiers(_)
OrderedTiers(created) ==
    IF created = <<>> THEN <<>>
    ELSE InsertByOrderIndex(OrderedTiers(SubSeq(created, 1, Len(created) - 1)),
                            created[Len(created)])

TiersOf(created) == [i \in 1..Len(created) |-> OrderedTiers(created)[i].tier]

\* a prize_tiers table whose rows no winners row holds
TierNeverReferenced(ps, winnerRows) == FALSE

\* Winner.PrizeTier, foreignKey:PrizeTierID, no OnDelete: a prize_tiers row that
\* a winners row references cannot be deleted
TierReferenced(ps, winnerRows) ==
    \E i \in 1..Len(ps.Tiers) : \E w \in winnerRows : w.PrizeTierID = ps.Tiers[i].ID

StructIdle == [pc |-> "idle", kind |-> "none", pid |-> 0, status |-> 0]

StructReply(loc, status) == [loc EXCEPT !.pc = "done", !.status = status]

\* UpdatePrizeStructure on the :id parameter and the body; dbOK: no statement of
\* the transaction fails for a reason of the database's own
UpdateWith(pid, body, dbOK) ==
    LET loc     == [StructIdle EXCEPT !.kind = "update", !.pid = pid]
        refused == UNCHANGED <<prizeStructures, nextTierId>>
    IN  IF ~Parses(pid)
        THEN sh' = StructReply(loc, 400) /\ refused
        ELSE IF ~BindsStructure(body)
        THEN sh' = StructReply(loc, 400) /\ refused
        ELSE IF ~Parses(body.effective)
        THEN sh' = StructReply(loc, 400) /\ refused
        ELSE IF FindStructures(prizeStructures, pid) = {}
        THEN sh' = StructReply(loc, 404) /\ refused
        ELSE \E existing \in FindStructures(prizeStructures, pid) :
               IF ~dbOK \/ TierReferenced(existing, winners)
               THEN sh' = StructReply(loc, 500) /\ refused
               ELSE /\ nextTierId + Len(body.tiers) - 1 <= MaxTierIds
                    /\ prizeStructures' =
                         (prizeStructures \ {existing}) \cup
                         {[ID        |-> existing.ID,
                           Name      |-> body.name,
                           Effective |-> body.effective,
                           Tiers     |-> TiersOf(CreatedTiers(body.tiers, nextTierId))]}
                    /\ nextTierId' = nextTierId + Len(body.tiers)
                    /\ sh' = StructReply(loc, 200)

UpdatePrizeStructure ==
    /\ sh.pc \in {"idle", "done"}
    /\ \E pid \in StructureIdParams, body \in UpdateRequestBodies, dbOK \in BOOLEAN :
         UpdateWith(pid, body, dbOK)
    /\ UNCHANGED <<draws, winners, nextId, h, engVars, nextStructId, call, rngVars>>

\* DeletePrizeStructure up to the count of the draws that use the structure; the
\* error of the count query is not looked at, and drawCount stays 0 when it fails
DeleteCount ==
    /\ sh.pc \in {"idle", "done"}
    /\ \E pid \in StructureIdParams, dbOK \in BOOLEAN :
         LET loc       == [StructIdle EXCEPT !.kind = "delete", !.pid = pid]
             drawCount == IF dbOK
                          THEN Cardinality({d \in draws : d.PrizeStructureID = pid})
                          ELSE 0
         IN  IF ~Parses(pid)
             THEN sh' = StructReply(loc, 400)
             ELSE IF drawCount > 0
             THEN sh' = StructReply(loc, 409)
             ELSE sh' = [loc EXCEPT !.pc = "counted"]
    /\ UNCHANGED <<dbVars, nextId, h, engVars, nextTierId, nextStructId, call, rngVars>>

\* config.DB.Select("Tiers").Delete(&models.PrizeStructure{ID: pid})
DeleteStructure ==
    /\ sh.pc = "counted"
    /\ \E dbOK \in BOOLEAN :
         IF ~dbOK \/ \E ps \in FindStructures(prizeStructures, sh.pid) :
                        TierReferenced(ps, winners)
         THEN sh' = StructReply(sh, 500) /\ UNCHANGED prizeStructures
         ELSE /\ prizeStructures' = prizeStructures \ FindStructures(prizeStructures, sh.pid)
              /\ sh' = StructReply(sh, 204)
    /\ UNCHANGED <<draws, winners, nextId, h, engVars, nextTierId, nextStructId, call,
                   rngVars>>

\* a structure with one tier, and a body without tiers
CreateRequestBodies ==
    { StructureRequest("weekly", 2, <<TierRequest("Jackpot", 1, 1, 1)>>),
      StructureRequest("weekly", 2, <<>>) }

\* CreatePrizeStructure on the body; dbOK: config.DB.Create(&ps), one
\* transaction for the structure and its tiers, does not fail
CreatePrizeStructure ==
    /\ sh.pc \in {"idle", "done"}
    /\ \E body \in CreateRequestBodies, dbOK \in BOOLEAN :
         LET loc     == [StructIdle EXCEPT !.kind = "create"]
             refused == UNCHANGED <<prizeStructures, nextTierId, nextStructId>>
         IN  IF ~BindsStructure(body)
             THEN sh' = StructReply(loc, 400) /\ refused
             ELSE IF ~Parses(body.effective)
             THEN sh' = StructReply(loc, 400) /\ refused
             ELSE /\ nextTierId + Len(body.tiers) - 1 <= MaxTierIds
                  /\ nextStructId <= MaxStructIds
                  /\ IF ~dbOK
                     THEN sh' = StructReply(loc, 500) /\ refused
                     ELSE /\ prizeStructures' =
                               prizeStructures \cup
                               {[ID        |-> nextStructId,
                                 Name      |-> body.name,
                                 Effective |-> body.effective,
                                 Tiers     |-> TiersOf(CreatedTiers(body.tiers,
                                                                    nextTierId))]}
                          /\ nextTierId' = nextTierId + Len(body.tiers)
                          /\ nextStructId' = nextStructId + 1
                          /\ sh' = StructReply([loc EXCEPT !.pid = nextStructId], 201)
    /\ UNCHANGED <<draws, winners, nextId, h, engVars, call, rngVars>>

NoCall == [fn |-> "none", arg |-> <<>>, out |-> <<>>]

EngineOff == [NewDrawState(<<>>, {}) EXCEPT !.status = "off"]

Init ==
    /\ draws = {}
    /\ winners = {}
    /\ prizeStructures = {JackpotStructure}
    /\ nextId = 1
    /\ h = [p \in Procs |-> Idle]
    /\ eng = EngineOff
    /\ engTiers = <<>>
    /\ engPast = {}
    /\ engPool0 = <<>>
    /\ sh = StructIdle
    /\ nextTierId = 2
    /\ nextStructId = 2
    /\ call = NoCall
    /\ mu = 0
    /\ streamPos = 0
    /\ rd = [g \in Goroutines |-> NoRead]

Next ==
    \E p \in Procs :
        \/ ExecuteBegin(p)
        \/ ExecuteDrawWinners(p)
        \/ ExecuteWrite(p)
        \/ RerunBegin(p)
        \/ RerunDrawWinners(p)
        \/ RerunWrite(p)

Spec == Init /\ [][Next]_vars

\* ------------------------------------------------------------------------
\* Specification of the prize-structure routes next to the draw routes: one
\* goroutine of each
\* ------------------------------------------------------------------------
StructureNext ==
    \/ CreatePrizeStructure
    \/ UpdatePrizeStructure
    \/ DeleteCount
    \/ DeleteStructure
    \/ ExecuteBegin(1)
    \/ ExecuteDrawWinners(1)
    \/ ExecuteWrite(1)
    \/ RerunBegin(1)
    \/ RerunDrawWinners(1)
    \/ RerunWrite(1)

StructureSpec == Init /\ [][StructureNext]_vars

\* ------------------------------------------------------------------------
\* Helpers of the draw handlers: computePostHogWindow and maskMSISDN
\* ------------------------------------------------------------------------
\* A time.Time is the number of seconds since 00:00:00 of day 0 in the location
\* of the draw date; day 0 is a Sunday.  The draw date comes from
\* time.Parse("2006-01-02", ...), whose location is UTC: every day has
\* SecondsPerDay seconds.
SecondsPerDay == 86400

WindowHour == 17

Monday == 1

Saturday == 6

FirstDay == 7

MaxDay == 48

\* time.Date(year, month, day, hour, min, sec, 0, loc)
Date(day, hour, min, sec) == day * SecondsPerDay + hour * 3600 + min * 60 + sec

\* t.Year(), t.Month(), t.Day()
DayOf(t) == t \div SecondsPerDay

\* t.Weekday(): time.Sunday = 0, ..., time.Saturday = 6
Weekday(t) == DayOf(t) % 7

\* t.AddDate(0, 0, days): the same time of day, days days later
AddDate(t, days) == t + days * SecondsPerDay

\* a window that starts on the hour
WindowStartingOnTheHour(drawDate) ==
    LET windowEnd == Date(DayOf(drawDate), WindowHour, 0, 0)
    IN  [windowStart |-> IF Weekday(drawDate) = Monday THEN AddDate(windowEnd, -3)
                         ELSE IF Weekday(drawDate) = Saturday THEN AddDate(windowEnd, -7)
                         ELSE AddDate(windowEnd, -1),
         windowEnd   |-> windowEnd]

computePostHogWindow(drawDate) ==
    LET windowEnd == Date(DayOf(drawDate), WindowHour, 0, 0)
    IN  [windowStart |-> IF Weekday(drawDate) = Monday THEN AddDate(windowEnd, -3) + 1
                         ELSE IF Weekday(drawDate) = Saturday THEN AddDate(windowEnd, -7) + 1
                         ELSE AddDate(windowEnd, -1) + 1,
         windowEnd   |-> windowEnd]

\* the draw dates of the calls: midnight of a day, as time.Parse returns it, and
\* two later times of the same day
DrawTimes == {Date(d, 0, 0, 0) + t : d \in FirstDay..MaxDay, t \in {0, 61200, 86399}}

ComputeWindow ==
    /\ call = NoCall
    /\ \E drawDate \in DrawTimes :
         call' = [fn |-> "computePostHogWindow", arg |-> drawDate,
                  out |-> computePostHogWindow(drawDate)]
    /\ UNCHANGED <<dbVars, nextId, h, engVars, structVars, rngVars>>

MaxLen == 9

\* an MSISDN as a string: its bytes
MsisdnStrings == UNION {[1..n -> {"0", "8"}] : n \in 0..MaxLen}

\* a mask that keeps the first four bytes
maskKeepingFour(msisdn) ==
    IF Len(msisdn) < 7 THEN msisdn
    ELSE SubSeq(msisdn, 1, 4) \o <<"*", "*", "*", "*">>
         \o SubSeq(msisdn, Len(msisdn) - 3, Len(msisdn))

maskMSISDN(msisdn) ==
    IF Len(msisdn) < 7 THEN msisdn
    ELSE SubSeq(msisdn, 1, 3) \o <<"*", "*", "*", "*">>
         \o SubSeq(msisdn, Len(msisdn) - 3, Len(msisdn))

\* the entry of responseWinners for a winner: prize_tier, position and
\* is_runner_up are copied from winnerInfo
ResponseWinner(winnerInfo) ==
    [prize_tier    |-> winnerInfo.TierName,
     position      |-> winnerInfo.Position,
     masked_msisdn |-> maskMSISDN(winnerInfo.MSISDN),
     is_runner_up  |-> winnerInfo.IsRunnerUp]

\* responseWinners = append(responseWinners, ...), for one winner of the draw
AppendResponseWinner ==
    /\ call = NoCall
    /\ \E msisdn \in MsisdnStrings, runnerUp \in BOOLEAN :
         LET winnerInfo == [TierName |-> "Jackpot", MSISDN |-> msisdn, Position |-> 1,
                            IsRunnerUp |-> runnerUp]
         IN  call' = [fn |-> "responseWinner", arg |-> winnerInfo,
                      out |-> ResponseWinner(winnerInfo)]
    /\ UNCHANGED <<dbVars, nextId, h, engVars, structVars, rngVars>>

HelperNext == ComputeWindow \/ AppendResponseWinner

HelperSpec == Init /\ [][HelperNext]_vars

\* ------------------------------------------------------------------------
\* Specification of one pickOneMSISDN call on a freshly built pool
\* ------------------------------------------------------------------------
MaxWord == 13

\* entries as a source may deliver them: also with no points
SamplerEntryLists ==
    UNION {[1..n -> {EligibleEntry(m, p) : m \in MSISDNs, p \in 0..MaxPoints}] :
             n \in 0..MaxEntries}

\* weightedPool, totalPoints := BuildWeightedEntries(entries), then one
\* pickOneMSISDN(weightedPool, totalPoints) whose csprng.Uint32() returns u32
BuildAndPick ==
    /\ call = NoCall
    /\ \E entries \in SamplerEntryLists, u32 \in 0..MaxWord :
         LET built == BuildWeightedEntries(entries)
         IN  call' = [fn  |-> "pickOneMSISDN",
                      arg |-> [entries |-> entries, weighted |-> built.pool,
                               totalPoints |-> built.totalPoints, u32 |-> u32],
                      out |-> pickOneMSISDN(built.pool, built.totalPoints, u32)]
    /\ UNCHANGED <<dbVars, nextId, h, engVars, structVars, rngVars>>

SamplerSpec == Init /\ [][BuildAndPick]_vars

\* ------------------------------------------------------------------------
\* internal/rng/cspring.go: goroutines calling CSPRNG.Read and CSPRNG.Uint32
\* ------------------------------------------------------------------------
MaxStream == 8

\* len(buf): 4 in Uint32 (var b [4]byte), and a Read of two bytes
BufLens == {2, 4}

\* a mutex that lets every caller in
MutexIgnored == TRUE

\* c.mu.Lock() returns: no goroutine holds the mutex
MutexFree == mu = 0

\* a goroutine calls c.Read(buf), directly or through c.Uint32()
ReadCall(g) ==
    /\ rd[g].pc \in {"idle", "returned"}
    /\ \E n \in BufLens :
         rd' = [rd EXCEPT ![g] = [@ EXCEPT !.pc = "called", !.n = n, !.got = <<>>]]
    /\ UNCHANGED <<dbVars, nextId, h, engVars, structVars, call, mu, streamPos>>

\* c.mu.Lock() at the head of Read returns
ReadLock(g) ==
    /\ rd[g].pc = "called"
    /\ MutexFree
    /\ streamPos + rd[g].n <= MaxStream
    /\ rd' = [rd EXCEPT ![g].pc = "locked"]
    /\ mu' = g
    /\ UNCHANGED <<dbVars, nextId, h, engVars, structVars, call, streamPos>>

\* c.stream.XORKeyStream(buf, buf), one byte of it: the stream hands out its
\* next keystream byte and moves on
XORKeyStreamByte(g) ==
    /\ rd[g].pc = "locked"
    /\ Len(rd[g].got) < rd[g].n
    /\ rd' = [rd EXCEPT ![g].got = Append(@, streamPos)]
    /\ streamPos' = streamPos + 1
    /\ UNCHANGED <<dbVars, nextId, h, engVars, structVars, call, mu>>

\* return len(buf), nil, and the deferred c.mu.Unlock()
ReadUnlock(g) ==
    /\ rd[g].pc = "locked"
    /\ Len(rd[g].got) = rd[g].n
    /\ rd' = [rd EXCEPT ![g] = [@ EXCEPT !.pc = "returned",
                                         !.calls = Append(@, rd[g].got)]]
    /\ mu' = 0
    /\ UNCHANGED <<dbVars, nextId, h, engVars, structVars, call, streamPos>>

RngNext ==
    \E g \in Goroutines :
        \/ ReadCall(g)
        \/ ReadLock(g)
        \/ XORKeyStreamByte(g)
        \/ ReadUnlock(g)

RngSpec == Init /\ [][RngNext]_vars

\* ------------------------------------------------------------------------
\* Specification of one DrawWinners call, sampling step by sampling step
\* ------------------------------------------------------------------------
TierLists ==
    { <<PrizeTier(1, "Jackpot", 1, 1), PrizeTier(2, "Consolation", 1, 0)>>,
      <<PrizeTier(1, "Jackpot", 5, 0)>>,
      <<PrizeTier(1, "Jackpot", 1, 0)>>,
      <<PrizeTier(2, "Consolation", 1, 1), PrizeTier(1, "Jackpot", 2, 1)>> }

PastRows == [MSISDN : MSISDNs, PrizeTierID : {1, 2}]

PastRowSets == {rs \in SUBSET PastRows : Cardinality(rs) <= MaxPastRows}

EngineInit ==
    /\ draws = {}
    /\ winners = {}
    /\ prizeStructures = {JackpotStructure}
    /\ nextId = 1
    /\ h = [p \in Procs |-> Idle]
    /\ \E entries \in EntryLists \ {<<>>}, tiers \in TierLists, past \in PastRowSets :
         /\ eng = StartDraw(entries, tiers,
                            JackpotPastWinners(past, {tiers[i] : i \in 1..Len(tiers)}))
         /\ engTiers = tiers
         /\ engPast = past
         /\ engPool0 = BuildWeightedEntries(entries).pool
    /\ sh = StructIdle
    /\ nextTierId = 2
    /\ nextStructId = 2
    /\ call = NoCall
    /\ mu = 0
    /\ streamPos = 0
    /\ rd = [g \in Goroutines |-> NoRead]

EngineMainPick ==
    /\ eng.status = "running"
    /\ eng.phase = "main"
    /\ \E u32 \in Words(eng.totalPoints) : eng' = DrawStep(eng, engTiers, u32)
    /\ UNCHANGED <<dbVars, nextId, h, engTiers, engPast, engPool0, structVars, call, rngVars>>

EngineRunnerUpPick ==
    /\ eng.status = "running"
    /\ eng.phase = "runner"
    /\ \E u32 \in Words(eng.totalPoints) : eng' = DrawStep(eng, engTiers, u32)
    /\ UNCHANGED <<dbVars, nextId, h, engTiers, engPast, engPool0, structVars, call, rngVars>>

EngineNext == EngineMainPick \/ EngineRunnerUpPick

EngineSpec == EngineInit /\ [][EngineNext]_vars

\* ------------------------------------------------------------------------
\* Specification of one DrawWinners call on a structure that has tiers of the
\* same name: neither the handlers nor the tables require tier names to differ
\* ------------------------------------------------------------------------
SameNameTierLists ==
    { <<PrizeTier(1, "Jackpot", 1, 0), PrizeTier(2, "Jackpot", 1, 0)>>,
      <<PrizeTier(1, "Jackpot", 1, 1), PrizeTier(2, "Jackpot", 1, 1)>>,
      <<PrizeTier(1, "Jackpot", 1, 0), PrizeTier(2, "Consolation", 1, 0),
        PrizeTier(3, "Jackpot", 1, 0)>> }

SameNameInit ==
    /\ draws = {}
    /\ winners = {}
    /\ prizeStructures = {JackpotStructure}
    /\ nextId = 1
    /\ h = [p \in Procs |-> Idle]
    /\ \E entries \in EntryLists \ {<<>>}, tiers \in SameNameTierLists,
          past \in PastRowSets :
         /\ eng = StartDraw(entries, tiers,
                            JackpotPastWinners(past, {tiers[i] : i \in 1..Len(tiers)}))
         /\ engTiers = tiers
         /\ engPast = past
         /\ engPool0 = BuildWeightedEntries(entries).pool
    /\ sh = StructIdle
    /\ nextTierId = 2
    /\ nextStructId = 2
    /\ call = NoCall
    /\ mu = 0
    /\ streamPos = 0
    /\ rd = [g \in Goroutines |-> NoRead]

SameNameSpec == SameNameInit /\ [][EngineNext]_vars

\* ------------------------------------------------------------------------
\* Properties
\* ------------------------------------------------------------------------

\* the (tier name, index) places of the winners a finished call returns
ReturnedPlaces ==
    UNION {{<<k, i>> : i \in 1..Len(eng.result[k])} : k \in DOMAIN eng.result}

\* the slots the tiers ask for: Quantity + RunnerUpCount of every tier
RECURSIVE SlotsRequested(_)
SlotsRequested(tiers) ==
    IF tiers = <<>> THEN 0
    ELSE tiers[1].Quantity + tiers[1].RunnerUpCount + SlotsRequested(Tail(tiers))

\* the past-winner input records msisdn as a winner of the tier with this id
PastWinnerOfTier(msisdn, tierId) ==
    /\ msisdn \in DOMAIN pastWinsByTier(engPast)
    /\ tierId \in pastWinsByTier(engPast)[msisdn]

\* C1: in every reachable state the draws table holds at most one row with
\* isRerun = false per drawDate: of the concurrent ExecuteDraw requests for one
\* date at most one commits.
OneOriginalDrawPerDate ==
    \A d1, d2 \in draws :
        (~d1.IsRerun /\ ~d2.IsRerun /\ d1.DrawDate = d2.DrawDate) => d1 = d2

\* C2: the winners one DrawWinners call returns have pairwise distinct MSISDNs,
\* across all tiers and across mains and runner-ups, whatever the entries
\* (several entries of one MSISDN included), the tiers, the past winners and the
\* random stream.
DistinctWinnersPerDraw ==
    eng.status = "done" =>
        \A a, b \in ReturnedPlaces :
            a # b => eng.result[a[1]][a[2]].MSISDN # eng.result[b[1]][b[2]].MSISDN

\* a finished call on entries that hold one MSISDN twice, which returned that
\* MSISDN and a runner-up
DuplicateEntryDrawFinished ==
    /\ eng.status = "done"
    /\ \E i, j \in 1..Len(engPool0), a \in ReturnedPlaces :
         /\ i # j
         /\ engPool0[i].MSISDN = engPool0[j].MSISDN
         /\ eng.result[a[1]][a[2]].MSISDN = engPool0[i].MSISDN
    /\ \E i \in 1..Len(eng.picks) : eng.picks[i].accepted /\ eng.picks[i].runnerUp
    /\ Cardinality(ReturnedPlaces) >= 2

\* C3: no winner DrawWinners returns for tier t, main winner or runner-up, is an
\* MSISDN the past-winner input records as a winner of the same tier t.
NoRepeatWinnerOfSameTier ==
    eng.status = "done" =>
        \A a \in ReturnedPlaces :
            ~PastWinnerOfTier(eng.result[a[1]][a[2]].MSISDN,
                              TierIdByName(engTiers, a[1]))

\* C4: the Draw row and the Winner rows of one ExecuteDraw or RerunDraw are
\* written all or nothing (after a failed insert or commit neither the Draw row
\* nor any of its Winner rows exists; after a commit all of them exist), and
\* every Winner row's DrawID is the ID of an existing Draw row.
DrawAndWinnersAllOrNothing ==
    /\ \A w \in winners : \E d \in draws : d.ID = w.DrawID
    /\ \A p \in Procs :
         (h[p].pc = "done" /\ h[p].newDrawID # 0) =>
             LET mine == {w \in winners : w.DrawID = h[p].newDrawID}
             IN  IF h[p].committed
                 THEN /\ h[p].newDraw \in draws
                      /\ mine = {h[p].rows[i] : i \in 1..Len(h[p].rows)}
                 ELSE /\ \A d \in draws : d.ID # h[p].newDrawID
                      /\ mine = {}

\* a request whose transaction was rolled back and answered 500, next to a
\* committed draw with its winners
RolledBackNextToCommitted ==
    /\ winners # {}
    /\ \E p \in Procs :
         /\ h[p].pc = "done"
         /\ h[p].newDrawID # 0
         /\ ~h[p].committed
         /\ h[p].resp.status = 500

\* C5: the write of a RerunDraw that commits adds exactly one Draw row, with
\* IsRerun = TRUE and the DrawDate and PrizeStructureID of the original draw,
\* although a draw for that date exists; the original Draw row and its Winner
\* rows stay as they are.
RerunAddsOneFlaggedDraw ==
    [][\A p \in Procs :
         (/\ h[p].pc = "drawn"
          /\ h[p].kind = "rerun"
          /\ h'[p].pc = "done"
          /\ h'[p].committed)
         => LET old == h[p].oldDraw
            IN  /\ \E new \in draws' \ draws :
                     /\ draws' = draws \cup {new}
                     /\ new.IsRerun
                     /\ new.DrawDate = old.DrawDate
                     /\ new.PrizeStructureID = old.PrizeStructureID
                /\ old \in draws
                /\ old \in draws'
                /\ winners \subseteq winners'
                /\ {w \in winners' : w.DrawID = old.ID} = {w \in winners : w.DrawID = old.ID}
      ]_vars

\* a committed rerun whose row stands next to the original draw and its winners
RerunCommittedNextToOriginal ==
    \E p \in Procs :
        /\ h[p].pc = "done"
        /\ h[p].kind = "rerun"
        /\ h[p].committed
        /\ h[p].newDraw \in draws
        /\ h[p].oldDraw \in draws
        /\ h[p].newDraw # h[p].oldDraw
        /\ \E w \in winners : w.DrawID = h[p].oldDraw.ID

PartialFillWithoutFailure ==
    Cardinality({engPool0[i].MSISDN : i \in 1..Len(engPool0)}) < SlotsRequested(engTiers)
        => eng.status \notin {"panic", "error"}

\* C8: a candidate for tier t is accepted iff it was not selected earlier in
\* this draw and the past-winner input does not record it as a winner of tier t
\* (past wins in other tiers do not count).
AcceptedIffEligibleForTier ==
    \A i \in 1..Len(eng.picks) :
        LET pk == eng.picks[i]
            selectedThisDraw ==
                \E j \in 1..(i - 1) : /\ eng.picks[j].accepted
                                      /\ eng.picks[j].msisdn = pk.msisdn
        IN  pk.accepted <=> (~selectedThisDraw /\ ~PastWinnerOfTier(pk.msisdn, pk.tier))

\* C9: a RerunDraw for an existing draw id whose body is the ExecuteDraw body
\* without prize_structure_id, with or without msisdn_entries, is not answered
\* 400.
RerunAcceptsBodyWithoutStructureId ==
    [][\A p \in Procs :
         (h'[p] # h[p] /\ h[p].pc \in {"idle", "done"} /\ h'[p].kind = "rerun") =>
             \A id \in 1..MaxDrawIds, body \in RerunRequestBodies :
                 (/\ FindDrawsById(draws, id) # {}
                  /\ body.draw_date > 0
                  /\ body.prize_structure_id = 0
                  /\ \A i \in 1..Len(body.msisdn_entries) :
                        body.msisdn_entries[i].Points >= 1
                  /\ RerunBeginWith(p, id, body))
                 => h'[p].resp.status # 400
      ]_vars

\* C10: a request answered with a 4xx status leaves the draws and winners tables
\* as they were: the step that answers 4xx writes nothing and its request never
\* opened a transaction, and no step of a handler before its transaction writes.
ClientErrorLeavesTablesUnchanged ==
    [][\A p \in Procs :
         h'[p] # h[p] =>
             /\ (h'[p].pc = "done" /\ h'[p].resp.status \in 400..499)
                    => /\ draws' = draws
                       /\ winners' = winners
                       /\ h'[p].newDrawID = 0
             /\ h'[p].pc \in {"loaded", "drawn"}
                    => /\ draws' = draws
                       /\ winners' = winners
      ]_vars

\* an ExecuteDraw answered 400 after its date check and a RerunDraw answered
\* 404, with a draw and its winners in the tables
ClientErrorsAnswered ==
    /\ draws # {}
    /\ winners # {}
    /\ \E p, q \in Procs :
         /\ h[p].pc = "done"
         /\ h[p].kind = "execute"
         /\ h[p].drawDate # 0
         /\ h[p].resp.status = 400
         /\ h[q].pc = "done"
         /\ h[q].kind = "rerun"
         /\ h[q].resp.status = 404


\* C11: a prize structure that at least one Draw references is never changed:
\* whatever UpdatePrizeStructure and DeletePrizeStructure are asked to do with
\* it, the structure keeps its name, its effective date and its tiers (ids,
\* names, quantities, runner-up counts and order), and it stays in the table.
ReferencedStructureNeverChanged ==
    [][\A ps \in prizeStructures :
          (\E d \in draws : d.PrizeStructureID = ps.ID) => ps \in prizeStructures'
      ]_vars

\* an update of a structure that a Draw references has been answered
ReferencedStructureUpdateAnswered ==
    /\ sh.pc = "done"
    /\ sh.kind = "update"
    /\ sh.status = 500
    /\ \E ps \in prizeStructures : ps.ID = sh.pid
    /\ \E d \in draws : d.PrizeStructureID = sh.pid


\* C12: computePostHogWindow(d) returns windowEnd = d at 17:00:00 and
\* windowStart = (d - k days) at 17:00:01 in the location of d, with k = 3 when
\* d is a Monday, k = 7 when d is a Saturday and k = 1 otherwise; windowStart(d)
\* is one second after windowEnd(d - k), and the window depends on the date of
\* d only.
PostHogWindowAsSpecified ==
    call.fn = "computePostHogWindow" =>
        LET d == DayOf(call.arg)
            k == IF d % 7 = Monday THEN 3 ELSE IF d % 7 = Saturday THEN 7 ELSE 1
        IN  /\ call.out.windowEnd = Date(d, 17, 0, 0)
            /\ call.out.windowStart = Date(d - k, 17, 0, 1)
            /\ call.out.windowStart
                 = computePostHogWindow(Date(d - k, 0, 0, 0)).windowEnd + 1
            /\ call.out = computePostHogWindow(Date(d, 0, 0, 0))

\* the window of a Monday has been computed
MondayWindowComputed ==
    /\ call.fn = "computePostHogWindow"
    /\ Weekday(call.arg) = Monday
    /\ call.out.windowEnd - call.out.windowStart = 3 * SecondsPerDay - 1

\* C13: maskMSISDN(s) is the first 3 bytes of s, "****" and the last 4 bytes of
\* s when s has at least 7 bytes, and s itself otherwise; the MSISDN of an entry
\* of the winners list of a response is maskMSISDN of the winner's MSISDN.
MaskedAsSpecified ==
    call.fn = "responseWinner" =>
        LET s == call.arg.MSISDN
            n == Len(s)
            m == call.out.masked_msisdn
        IN  IF n >= 7
            THEN /\ Len(m) = 11
                 /\ \A i \in 1..3 : m[i] = s[i]
                 /\ \A i \in 4..7 : m[i] = "*"
                 /\ \A i \in 1..4 : m[7 + i] = s[n - 4 + i]
            ELSE m = s

\* a winner's MSISDN of more than 7 bytes has been masked
LongMsisdnMasked ==
    /\ call.fn = "responseWinner"
    /\ Len(call.arg.MSISDN) > 7
    /\ call.out.masked_msisdn # call.arg.MSISDN


\* C14: the totalEntries stored on a committed Draw is the sum of the points of
\* the entries that were passed to the engine for that draw.
TotalEntriesIsSumOfPoints ==
    \A p \in Procs :
        (h[p].pc = "done" /\ h[p].committed)
        => \E d \in draws : /\ d.ID = h[p].newDrawID
                            /\ d.TotalEntries = SumPoints(h[p].used)

\* a draw over an entry of more than one point has been committed
WeightedDrawCommitted ==
    \E p \in Procs :
        /\ h[p].pc = "done"
        /\ h[p].committed
        /\ \E i \in 1..Len(h[p].used) : h[p].used[i].Points > 1

\* C15: the source stored on a committed Draw is "CSV" exactly when the request
\* carried a non-empty msisdn_entries and "PostHog" otherwise; in the CSV case
\* the PostHog client is not queried and the entries used are the supplied
\* pairs, in their order, duplicates included.
SourceFollowsRequestEntries ==
    \A p \in Procs :
        (h[p].pc = "done" /\ h[p].committed)
        => \E d \in draws :
             /\ d.ID = h[p].newDrawID
             /\ d.Source = "CSV" <=> Len(h[p].entries) > 0
             /\ d.Source # "CSV" => d.Source = "PostHog"
             /\ Len(h[p].entries) > 0 => (~h[p].queried /\ h[p].used = h[p].entries)

\* a draw over msisdn_entries that name an MSISDN twice has been committed
CsvDrawWithDuplicateCommitted ==
    \E p \in Procs :
        /\ h[p].pc = "done"
        /\ h[p].committed
        /\ \E d \in draws : d.ID = h[p].newDrawID /\ d.Source = "CSV"
        /\ \E i, j \in 1..Len(h[p].used) : i # j /\ h[p].used[i] = h[p].used[j]


\* the index in the tiers argument of the tier with this id
TierIndex(tierId) == CHOOSE i \in 1..Len(engTiers) : engTiers[i].ID = tierId

\* the sampling steps that returned a winner of the tier, in their order
AcceptedPicks(tierId) ==
    SelectSeq(eng.picks, LAMBDA pk : pk.tier = tierId /\ pk.accepted)

\* M: the winners the main loop drew for the tier
MainWinners(tierId) ==
    Len(SelectSeq(eng.picks, LAMBDA pk : pk.tier = tierId /\ pk.accepted /\ ~pk.runnerUp))

\* R: the winners the runner-up loop drew for the tier
RunnerUps(tierId) ==
    Len(SelectSeq(eng.picks, LAMBDA pk : pk.tier = tierId /\ pk.accepted /\ pk.runnerUp))

\* the MSISDNs of the pool when the loops of the i-th tier start: those of the
\* first pool less the winners of the tiers before
RemainingAtTierStart(i) ==
    {engPool0[j].MSISDN : j \in 1..Len(engPool0)}
    \ {eng.picks[j].msisdn :
         j \in {n \in 1..Len(eng.picks) :
                  eng.picks[n].accepted /\ TierIndex(eng.picks[n].tier) < i}}

Min(a, b) == IF a <= b THEN a ELSE b

\* C16: for every tier of a finished call, the number of main winners is the
\* smaller of the tier's quantity and the number of MSISDNs in the pool when
\* the tier starts.
MainWinnersFillTier ==
    eng.status = "done" =>
        \A i \in 1..Len(engTiers) :
            MainWinners(engTiers[i].ID)
              = Min(engTiers[i].Quantity, Cardinality(RemainingAtTierStart(i)))

\* C17: for every tier of a finished call with M main winners, the number of
\* runner-ups is the smaller of M * runnerUpCount and the number of MSISDNs left
\* in the pool after the main winners; there is none when M = 0 or
\* runnerUpCount = 0.
RunnerUpsPerMainWinner ==
    eng.status = "done" =>
        \A i \in 1..Len(engTiers) :
            LET M == MainWinners(engTiers[i].ID)
            IN  RunnerUps(engTiers[i].ID)
                  = Min(M * engTiers[i].RunnerUpCount,
                        Cardinality(RemainingAtTierStart(i)) - M)

\* C18: a rejected candidate does not use up the slot: with MSISDN 1 a past
\* winner of tier 1, entries [(1, 1), (2, 1)] and a first tier of quantity 1,
\* MSISDN 2 is the main winner of the tier whatever the random stream.
RejectedCandidateKeepsSlot ==
    (/\ eng.status = "done"
     /\ engPast = {[MSISDN |-> 1, PrizeTierID |-> 1]}
     /\ engPool0 = BuildWeightedEntries(<<EligibleEntry(1, 1), EligibleEntry(2, 1)>>).pool
     /\ engTiers = <<PrizeTier(1, "Jackpot", 1, 0)>>)
    => \E n \in 1..Len(eng.picks) :
          eng.picks[n] = Pick(engTiers[1], 2, TRUE, FALSE)

\* C19: of a finished call, every winner drawn by the main loop is persisted
\* with isRunnerUp = false and every winner drawn by the runner-up loop with
\* isRunnerUp = true, also when the main loop drew fewer than quantity winners.
RunnerUpFlagFollowsPhase ==
    eng.status = "done" =>
        \A k \in DOMAIN eng.result : \A i \in 1..Len(eng.result[k]) :
            WinnerRow(eng.result[k][i], k, engTiers, 1).IsRunnerUp
              = AcceptedPicks(TierIdByName(engTiers, k))[i].runnerUp

\* C20: of a finished call, the main winners of a tier carry the positions
\* 1..M in the order of their selection, and its runner-ups carry the positions
\* 1..R: the numbering starts again at 1.
PositionsRestartForRunnerUps ==
    eng.status = "done" =>
        \A k \in DOMAIN eng.result : \A i \in 1..Len(eng.result[k]) :
            LET M == MainWinners(TierIdByName(engTiers, k))
            IN  eng.result[k][i].Position = IF i <= M THEN i ELSE i - M


\* the points of the MSISDN in the pool
RECURSIVE WeightOf(_, _)
WeightOf(weighted, msisdn) ==
    IF weighted = <<>> THEN 0
    ELSE (IF weighted[1].MSISDN = msisdn THEN weighted[1].Weight ELSE 0)
         + WeightOf(Tail(weighted), msisdn)

\* C21: for a pool with correct cumulative sums and totalPoints > 0 and every
\* random word u, pickOneMSISDN returns the MSISDN of the entry with the
\* smallest index i such that cumsum[i] > u mod totalPoints; the number of
\* residues that select an MSISDN is the total weight of that MSISDN in the
\* pool.
PickIsFirstCumSumAboveResidue ==
    (call.fn = "pickOneMSISDN" /\ call.arg.totalPoints > 0) =>
        LET weighted == call.arg.weighted
            total    == call.arg.totalPoints
            r        == call.arg.u32 % total
        IN  /\ call.out.kind = "ok"
            /\ \E i \in 1..Len(weighted) :
                 /\ weighted[i].CumSum > r
                 /\ \A j \in 1..(i - 1) : weighted[j].CumSum <= r
                 /\ call.out.msisdn = weighted[i].MSISDN
            /\ \A m \in MSISDNs :
                 Cardinality({x \in 0..(total - 1) :
                                pickOneMSISDN(weighted, total, x).msisdn = m})
                   = WeightOf(weighted, m)

\* a word above totalPoints has picked from a pool that holds an MSISDN twice
\* and an entry without points
WordReducedOnMixedPool ==
    /\ call.fn = "pickOneMSISDN"
    /\ call.arg.totalPoints > 0
    /\ call.arg.u32 >= call.arg.totalPoints
    /\ call.out.kind = "ok"
    /\ \E i, j \in 1..Len(call.arg.weighted) :
         /\ i # j
         /\ call.arg.weighted[i].MSISDN = call.arg.weighted[j].MSISDN
    /\ \E i \in 1..Len(call.arg.weighted) : call.arg.weighted[i].Weight = 0

\* C22: called with totalPoints <= 0 (an empty pool, or a pool whose entries
\* all have zero points) the sampler returns an error value to its caller: it
\* does not crash and it returns no MSISDN.
EmptyPoolIsAnError ==
    (call.fn = "pickOneMSISDN" /\ call.arg.totalPoints <= 0) =>
        call.out.kind = "err"


\* C24: after the weighted pool is built from an entry list that holds several
\* entries with the same MSISDN, the pool holds exactly one WeightedEntry for
\* that MSISDN, and its weight is the sum of the points of those entries.
DuplicateEntriesCoalesced ==
    call.fn = "pickOneMSISDN" =>
        LET entries  == call.arg.entries
            weighted == call.arg.weighted
        IN  \A m \in {entries[i].MSISDN : i \in 1..Len(entries)} :
              /\ Cardinality({i \in 1..Len(weighted) : weighted[i].MSISDN = m}) = 1
              /\ \A i \in 1..Len(weighted) :
                   weighted[i].MSISDN = m
                   => weighted[i].Weight
                        = SumPoints(SelectSeq(entries, LAMBDA e : e.MSISDN = m))


\* C23: at every sampling step of DrawWinners, after the build and after every
\* removal, the pool is in ascending MSISDN order, every cumsum is the cumsum
\* before it plus the entry's weight (the first: its weight), the last cumsum
\* is totalPoints, totalPoints is the sum of the weights in the pool, and no
\* MSISDN selected earlier in the draw has an entry left in the pool.
PoolWellFormedAtEveryStep ==
    eng.status = "running" =>
        LET pool == eng.weightedPool
            n    == Len(pool)
        IN  /\ \A i \in 1..(n - 1) : pool[i].MSISDN <= pool[i + 1].MSISDN
            /\ \A i \in 1..n :
                 pool[i].CumSum
                   = (IF i = 1 THEN 0 ELSE pool[i - 1].CumSum) + pool[i].Weight
            /\ n > 0 => pool[n].CumSum = eng.totalPoints
            /\ eng.totalPoints = SumWeights(pool)
            /\ \A k \in 1..Len(eng.picks) :
                 eng.picks[k].accepted
                 => \A i \in 1..n : pool[i].MSISDN # eng.picks[k].msisdn

\* a sampling step is pending on a pool from which a winner has been removed
StepPendingAfterRemoval ==
    /\ eng.status = "running"
    /\ Len(eng.weightedPool) > 0
    /\ Len(eng.weightedPool) < Len(engPool0)
    /\ \E k \in 1..Len(eng.picks) : eng.picks[k].accepted


\* the winners the call selected: its accepted sampling steps
SelectedWinners == SelectSeq(eng.picks, LAMBDA pk : pk.accepted)

\* C25: the number of Winner rows written for a draw is the number of main
\* winners and runner-ups the engine selected over all the tiers of the
\* structure, also when two tiers of the structure have the same tierName.
WinnerRowForEverySelected ==
    eng.status = "done" =>
        \A order \in KeyOrders(eng.result) :
            Len(WinnerRows(eng.result, order, engTiers, 1)) = Len(SelectedWinners)

\* C29: the prizeTierId of every Winner row is the id of the tier in which the
\* engine selected that winner, also when two tiers of the structure have the
\* same tierName.
WinnerRowNamesSelectingTier ==
    eng.status = "done" =>
        \A order \in KeyOrders(eng.result) :
            LET rows == WinnerRows(eng.result, order, engTiers, 1)
            IN  \A i \in 1..Len(rows) :
                  \E n \in 1..Len(SelectedWinners) :
                      /\ SelectedWinners[n].msisdn = rows[i].MSISDN
                      /\ SelectedWinners[n].tier = rows[i].PrizeTierID


\* C27: after any interleaving of committed ExecuteDraw and RerunDraw
\* operations, no MSISDN has Winner rows for the same prizeTierId in two
\* different draws.
NoTierWonInTwoDraws ==
    \A w1, w2 \in winners :
        (w1.MSISDN = w2.MSISDN /\ w1.PrizeTierID = w2.PrizeTierID)
        => w1.DrawID = w2.DrawID

\* C28: ExecuteDraw and RerunDraw answer 200 with the winners only if the
\* transaction that wrote the Draw and its winners committed: when the commit
\* fails, the response is an error.
OkOnlyAfterCommit ==
    \A p \in Procs :
        (h[p].pc = "done" /\ h[p].kind \in {"execute", "rerun"} /\ h[p].resp.status = 200)
        => h[p].committed


\* C30: after any sequence of ExecuteDraw, RerunDraw, CreatePrizeStructure,
\* UpdatePrizeStructure and DeletePrizeStructure operations, the prizeTierId
\* of every Winner row is the id of an existing PrizeTier row.
WinnerTierExists ==
    \A w \in winners : \E t \in AllTiers(prizeStructures) : t.ID = w.PrizeTierID

\* winners are stored, and an update of their structure has been turned down
WinnersKeptThroughUpdate ==
    /\ winners # {}
    /\ sh.pc = "done"
    /\ sh.kind = "update"
    /\ sh.status = 500
    /\ \E w \in winners : \E ps \in FindStructures(prizeStructures, sh.pid) :
         \E i \in 1..Len(ps.Tiers) : ps.Tiers[i].ID = w.PrizeTierID


\* the buffers of the calls made so far: those returned and those in progress
ReadBuffers ==
    UNION {{<<g, k>> : k \in 1..Len(rd[g].calls)} : g \in Goroutines}
    \cup {<<g, 0>> : g \in {x \in Goroutines : rd[x].pc = "locked"}}

BufferOf(c) == IF c[2] = 0 THEN rd[c[1]].got ELSE rd[c[1]].calls[c[2]]

\* C26: the calls of CSPRNG.Read and CSPRNG.Uint32 that goroutines make
\* concurrently are serialised by the mutex: every call receives one contiguous
\* segment of the keystream, no two calls receive the same keystream byte, and
\* the segments are those of the calls run one after the other: together they
\* are the keystream from its start, without a gap.
ReadsAreSerialised ==
    /\ \A c \in ReadBuffers :
         \A i \in 1..Len(BufferOf(c)) : BufferOf(c)[i] = BufferOf(c)[1] + i - 1
    /\ \A c, d \in ReadBuffers :
         c # d => \A i \in 1..Len(BufferOf(c)) : \A j \in 1..Len(BufferOf(d)) :
                     BufferOf(c)[i] # BufferOf(d)[j]
    /\ \A b \in 0..(streamPos - 1) :
         \E c \in ReadBuffers : \E i \in 1..Len(BufferOf(c)) : BufferOf(c)[i] = b

\* a goroutine waits for the mutex while another is in the middle of its read
ReadInProgressNextToWaiter ==
    /\ \E g \in Goroutines : /\ rd[g].pc = "locked"
                             /\ Len(rd[g].got) > 0
                             /\ Len(rd[g].got) < rd[g].n
    /\ \E g \in Goroutines : rd[g].pc = "returned" /\ Len(rd[g].calls) > 0
    /\ \E g \in Goroutines : rd[g].pc = "called"

============================================================================
